---------------------------- MODULE Spec2Model ----------------------------
(***************************************************************************)
(* LKH-Vision-Solver: the GUI's optimisation pipeline (Start/Stop buttons, *)
(* the worker thread of _run_optimization, the LKH child process), the     *)
(* tour-file parsers, the distance-matrix engine, the parameter-file       *)
(* writers, the result tables, the tour distance and column detection.     *)
(*                                                                         *)
(*   Spec          the GUI: UI thread, worker threads, child processes     *)
(*   SpecTour      the two tour parsers, line by line, over bounded files  *)
(*   SpecMatrix    compute_distance_matrix / generate_tsp_file over        *)
(*                 bounded point sets                                      *)
(*   SpecPar       generate_par_file and _create_par_file                  *)
(*   SpecOutput    TourToExcelConverter.generate_output                    *)
(*   SpecDistance  _calculate_distance and create_tour_map                 *)
(*   SpecDetect    detect_columns and _load_columns                        *)
(*   SpecProgress  the progress bar over the solver's "Run N" lines        *)
(*   SpecPaths     generate_output over output paths and formats           *)
(*   SpecCount     the pair counter and progress reports of the matrix     *)
(*   SpecLive      the GUI under fair scheduling, one run per session      *)
(***************************************************************************)
EXTENDS Integers, Sequences, FiniteSets, TLC

(***************************************************************************)
(* Bounds of the model.                                                    *)
(***************************************************************************)
\* Start clicks that launch a worker thread.
MaxRuns == 2
\* Start clicks that launch a worker thread in a session checked for liveness.
MaxLiveRuns == 1
\* Lines a child's stdout pipe holds before the child blocks on a write.
MaxPipe == 1
\* Lines the children of one session write to their stdout in all.
MaxEmit == 2
\* Lines of an arbitrary tour file.
MaxLines == 4
\* Largest node id written in a tour file.
MaxId == 4
\* Node ids in the tour section of a file the solver wrote.
MaxTour == 4
\* Points of a data set.
MaxN == 3
\* Points of a data set when only the pair counter and the progress reports
\* of the matrix pass are followed.
MaxCountN == 7
\* Largest coordinate of a point, in quarter-kilometre angle units (see below).
MaxCoord == 3
\* Largest scale factor (4 makes a unit of distance a whole kilometre).
MaxScale == 4
\* Largest POPULATION_SIZE given to a parameter-file writer.
MaxPopulation == 3
\* Records of a data file handed to generate_output.
MaxRecords == 4
\* Records of a data file when the output path and format vary.
MaxPathRecords == 1
\* Columns of a data file handed to column detection.
MaxCols == 3
\* Largest RUNS parameter of a solver invocation.
MaxRunsParam == 3
\* Lines of solver output the read loop is followed over.
MaxOut == 2

VARIABLES
    \* ---- LKHVisionSolver (src/LKH_Vision_Solver.py) ----
    file_path,      \* TRUE when self.file_path holds a path, FALSE when ""
    is_running,     \* self.is_running
    process,        \* self.process: 0 is None, p > 0 the Popen object of run p
    start_btn,      \* state of self.start_btn: "normal" | "disabled"
    stop_btn,       \* state of self.stop_btn
    after_queue,    \* callbacks posted with root.after(0, ...), oldest first
    nthreads,       \* worker threads started so far
    pc,             \* pc[w]: where worker thread w stands in _run_optimization
    stdout_of,      \* the process whose stdout worker w iterates (line 832)
    wait_on,        \* the process worker w called wait() on (line 860)
    child,          \* child[p]: "none" | "running" | "exit0" | "exit1" | "terminated"
    pending,        \* lines in child p's stdout pipe, written and not yet read
    tour_file,      \* the .tour file on disk: 0 absent, p written by child p
    trace,          \* trace[w]: the stages worker w has started, in order
    failed,         \* failed[w]: the stage of worker w that raised, "" if none
    cancel_requested, \* cancel_requested[w]: Stop was clicked during run w
    emitted,        \* emitted[p]: lines child p has written to its stdout
    held,           \* held[w]: the line worker w has read and not yet logged,
                    \* <<p, k>> for line k of child p, <<>> for none
    console,        \* console[p]: the numbers of the lines of child p
                    \* inserted in self.console, oldest first
    progress_applied, \* progress_applied[p]: the numbers of the "Run" lines of
                    \* child p whose progress update the UI has run, oldest first
    \* ---- the tour parsers (tsp_converter.py, visualize_tour.py) ----
    t_parser,       \* "_parse_tour" | "parse_tour_file": the parser that runs
    t_exists,       \* the tour file exists
    t_lines,        \* the lines of the tour file, as the file iterator yields them
    t_pos,          \* lines read so far
    t_pc,           \* "idle" | "open" | "loop" | "done" | "raised"
    in_tour_section, \* in_tour_section
    tour_order,     \* tour_order
    tour_length,    \* tour_length: <<>> is None, <<k>> the integer k
    t_exc,          \* the exception the parser left with, "" if none
    \* ---- ExcelToTSPConverter (tsp_converter.py) ----
    points,         \* the rows of self.df: records [lat, lon] of coordinates
    scale,          \* self.scale
    m_pc,           \* "idle" | "begin" | "loop" | "return" | "computed" | "tsp"
                    \* | "raised"
    has_matrix,     \* self.distance_matrix is not None
    distance_matrix, \* self.distance_matrix: rows of entries, indices from 1
    mi,             \* loop variable i (from 1)
    mj,             \* loop variable j (from 1)
    count,          \* count
    last_percent,   \* last_percent
    progress,       \* the percentages printed by "[INFO] Progress: ..."
    tsp_file,       \* the problem file: its lines, <<>> while not written
    m_exc,          \* the exception compute_distance_matrix left with
    \* ---- the parameter-file writers (tsp_converter.py, LKH_Vision_Solver.py) ----
    par_writer,     \* "generate_par_file" | "_create_par_file"
    par_params,     \* the option values the writer is given
    par_pc,         \* "idle" | "write" | "done"
    par_file,       \* the lines of the parameter file, <<>> while not written
    \* ---- TourToExcelConverter.generate_output (tsp_converter.py) ----
    original_df,    \* self.original_df: the records, in dataset order
    result_df,      \* result_df: the records with their visiting_order
    o_pc,           \* "idle" | "begin" | "loop" | "sort" | "response" | "done"
    o_pos,          \* positions of self.tour_order the loop has handled
    result_file,    \* the rows of the result table written, in file order
    response_file,  \* the rows of the response table written, in file order
    output_path,    \* output_path, a sequence of characters
    output_format,  \* output_format, a sequence of characters
    response_path,  \* response_path, <<>> while not computed
    on_disk,        \* on_disk[path]: the table the file at path holds,
                    \* "result" or "response"
    printed,        \* the lines generate_output has printed, oldest first
    o_return,       \* the value generate_output returned, <<>> before it returns
    o_exc,          \* the exception generate_output left with, "" if none
    \* ---- the total distance of a tour (LKH_Vision_Solver.py, visualize_tour.py) ----
    d_pc,           \* "idle" | "calc" | "map" | "done"
    total_distance, \* self.total_distance: <<>> is None, <<d>> the distance d
    map_total,      \* total_distance of create_tour_map, <<>> while not computed
    map_exc,        \* the exception create_tour_map left with, "" if none
    \* ---- column detection (tsp_converter.py, LKH_Vision_Solver.py) ----
    det_fn,         \* "detect_columns" | "_load_columns"
    columns,        \* df.columns: the headers, each a sequence of characters
    det_pc,         \* "idle" | "detect" | "done"
    id_col,         \* id_col: <<>> is None, <<h>> the header h
    lat_col,        \* lat_col
    lon_col,        \* lon_col
    \* ---- the progress bar during the solver stage (LKH_Vision_Solver.py) ----
    runs,           \* runs: self.params['RUNS'].get()
    out_lines,      \* the lines the read loop gets, each a sequence of characters
    out_pos,        \* lines the read loop has handled
    bar_pc,         \* "idle" | "loop" | "done"
    current_run,    \* current_run
    bar_after,      \* the progress values of the callbacks posted, oldest first
    progress_value, \* self.progress['value'], the option the bar displays,
                    \* as <<numerator, denominator>>
    progress_attr   \* the Python attribute self.progress.value: <<>> while
                    \* not set, <<v>> the value v

guiVars == <<file_path, is_running, process, start_btn, stop_btn, after_queue,
             nthreads, pc, stdout_of, wait_on, child, pending,
             tour_file, trace, failed, cancel_requested,
             emitted, held, console, progress_applied>>

\* The solver's output on its way to the console and the progress bar.
conVars == <<emitted, held, console, progress_applied>>

tourVars == <<t_parser, t_exists, t_lines, t_pos, t_pc, in_tour_section,
              tour_order, tour_length, t_exc>>

matVars == <<points, scale, m_pc, has_matrix, distance_matrix, mi, mj, count,
             last_percent, progress, tsp_file, m_exc>>

parVars == <<par_writer, par_params, par_pc, par_file>>

\* The arguments of generate_output besides the data, and what its caller
\* gets to see.
pathVars == <<output_path, output_format, response_path, on_disk, printed,
              o_return, o_exc>>

outVars == <<original_df, result_df, o_pc, o_pos, result_file, response_file,
             pathVars>>

distVars == <<d_pc, total_distance, map_total, map_exc>>

detVars == <<det_fn, columns, det_pc, id_col, lat_col, lon_col>>

barVars == <<runs, out_lines, out_pos, bar_pc, current_run, bar_after,
             progress_value, progress_attr>>

vars == <<guiVars, tourVars, matVars, parVars, outVars, distVars, detVars,
          barVars>>

\* What the steps of one part leave alone.
notGui == <<tourVars, matVars, parVars, outVars, distVars, detVars, barVars>>
notTour == <<guiVars, matVars, parVars, outVars, distVars, detVars, barVars>>
notMat == <<guiVars, tourVars, parVars, outVars, distVars, detVars, barVars>>
notPar == <<guiVars, tourVars, matVars, outVars, distVars, detVars, barVars>>
notOut == <<guiVars, tourVars, matVars, parVars, distVars, detVars, barVars>>
notDist == <<guiVars, tourVars, matVars, parVars, outVars, detVars, barVars>>
notDet == <<guiVars, tourVars, matVars, parVars, outVars, distVars, barVars>>
notBar == <<guiVars, tourVars, matVars, parVars, outVars, distVars, detVars>>

Runs == 1..MaxRuns

\* A worker thread exists and has not left _run_optimization.
Active(w) == pc[w] \notin {"idle", "done"}

(***************************************************************************)
(* LKHVisionSolver.__init__                                                *)
(***************************************************************************)
GuiInit ==
    /\ file_path = FALSE
    /\ is_running = FALSE
    /\ process = 0
    /\ start_btn = "normal"
    /\ stop_btn = "disabled"
    /\ after_queue = <<>>
    /\ nthreads = 0
    /\ pc = [w \in Runs |-> "idle"]
    /\ stdout_of = [w \in Runs |-> 0]
    /\ wait_on = [w \in Runs |-> 0]
    /\ child = [p \in Runs |-> "none"]
    /\ pending = [p \in Runs |-> 0]
    /\ tour_file = 0
    /\ trace = [w \in Runs |-> <<>>]
    /\ failed = [w \in Runs |-> ""]
    /\ cancel_requested = [w \in Runs |-> FALSE]
    /\ emitted = [p \in Runs |-> 0]
    /\ held = [w \in Runs |-> <<>>]
    /\ console = [p \in Runs |-> <<>>]
    /\ progress_applied = [p \in Runs |-> <<>>]

\* No parser runs.
TourIdle ==
    /\ t_parser = "_parse_tour"
    /\ t_exists = FALSE
    /\ t_lines = <<>>
    /\ t_pos = 0
    /\ t_pc = "idle"
    /\ in_tour_section = FALSE
    /\ tour_order = <<>>
    /\ tour_length = <<>>
    /\ t_exc = ""

\* No converter runs.
MatIdle ==
    /\ points = <<>>
    /\ scale = 1
    /\ m_pc = "idle"
    /\ has_matrix = FALSE
    /\ distance_matrix = <<>>
    /\ mi = 0
    /\ mj = 0
    /\ count = 0
    /\ last_percent = 0
    /\ progress = <<>>
    /\ tsp_file = <<>>
    /\ m_exc = ""

\* No parameter file is being written.
ParIdle ==
    /\ par_writer = "generate_par_file"
    /\ par_params = <<>>
    /\ par_pc = "idle"
    /\ par_file = <<>>

\* No result table is being written.
PathIdle ==
    /\ output_path = <<>>
    /\ output_format = <<>>
    /\ response_path = <<>>
    /\ on_disk = <<>>
    /\ printed = <<>>
    /\ o_return = <<>>
    /\ o_exc = ""

OutIdle ==
    /\ original_df = <<>>
    /\ result_df = <<>>
    /\ o_pc = "idle"
    /\ o_pos = 0
    /\ result_file = <<>>
    /\ response_file = <<>>
    /\ PathIdle

\* No distance is being summed.
DistIdle ==
    /\ d_pc = "idle"
    /\ total_distance = <<>>
    /\ map_total = <<>>
    /\ map_exc = ""

\* No column detection runs.
DetIdle ==
    /\ det_fn = "detect_columns"
    /\ columns = <<>>
    /\ det_pc = "idle"
    /\ id_col = <<>>
    /\ lat_col = <<>>
    /\ lon_col = <<>>

\* Everything but the GUI, the parsers and the matrix at rest.
BarIdle ==
    /\ runs = 1
    /\ out_lines = <<>>
    /\ out_pos = 0
    /\ bar_pc = "idle"
    /\ current_run = 0
    /\ bar_after = <<>>
    /\ progress_value = <<0, 1>>
    /\ progress_attr = <<>>

RestIdle == ParIdle /\ OutIdle /\ DistIdle /\ DetIdle /\ BarIdle

Init == GuiInit /\ TourIdle /\ MatIdle /\ RestIdle

(***************************************************************************)
(* UI thread                                                               *)
(***************************************************************************)
\* _reset_ui without its first statement: Stop is disabled, Start is left
\* as it is.
ResetUiStopOnly ==
    /\ stop_btn' = "disabled"
    /\ UNCHANGED start_btn

\* _reset_ui: the buttons go back to their initial state.
\* (progress bar and label are display only)
ResetUi ==
    /\ start_btn' = "normal"
    /\ stop_btn' = "disabled"

\* _select_file with a file chosen in the dialog.
SelectFile ==
    /\ UNCHANGED notGui
    /\ UNCHANGED conVars
    /\ file_path = FALSE
    /\ file_path' = TRUE
    /\ UNCHANGED <<is_running, process, start_btn, stop_btn, after_queue,
                   nthreads, pc, stdout_of, wait_on, child, pending,
                   tour_file, trace, failed, cancel_requested>>

\* _start_optimization without a file: the warning box, then return.
StartNoFile ==
    /\ UNCHANGED notGui
    /\ start_btn = "normal"
    /\ file_path = FALSE
    /\ UNCHANGED guiVars

\* _start_optimization: a click on the (enabled) Start button.
StartClick ==
    /\ UNCHANGED notGui
    /\ UNCHANGED conVars
    /\ start_btn = "normal"
    /\ file_path = TRUE
    /\ nthreads < MaxRuns
    /\ is_running' = TRUE
    /\ start_btn' = "disabled"
    /\ stop_btn' = "normal"
    /\ nthreads' = nthreads + 1
    /\ pc' = [pc EXCEPT ![nthreads + 1] = "begin"]
    /\ UNCHANGED <<file_path, process, after_queue, stdout_of, wait_on, child,
                   pending, tour_file, trace, failed, cancel_requested>>

\* process.terminate(): a running child dies, a finished one is left as it is.
Terminate(p) ==
    IF p # 0 /\ child[p] = "running"
    THEN [child EXCEPT ![p] = "terminated"]
    ELSE child

\* _stop_optimization: a click on the (enabled) Stop button.  Every worker
\* still inside _run_optimization has had its cancellation requested.
StopClick ==
    /\ UNCHANGED notGui
    /\ UNCHANGED conVars
    /\ stop_btn = "normal"
    /\ is_running' = FALSE
    /\ child' = Terminate(process)
    /\ ResetUi
    /\ cancel_requested' = [w \in Runs |-> cancel_requested[w] \/ Active(w)]
    /\ UNCHANGED <<file_path, process, after_queue, nthreads, pc, stdout_of,
                   wait_on, pending, tour_file, trace, failed>>

\* A callback posted with root.after(0, ...): its name and, for a progress
\* update, the child and the number of the "Run" line it was derived from.
Callback(name, p, k) == <<name, p, k>>

\* The Tk event loop runs the oldest callback posted with root.after: here
\* self._reset_ui.
UiAfter ==
    /\ UNCHANGED notGui
    /\ UNCHANGED conVars
    /\ after_queue # <<>>
    /\ Head(after_queue)[1] = "_reset_ui"
    /\ after_queue' = Tail(after_queue)
    /\ ResetUi
    /\ UNCHANGED <<file_path, is_running, process, nthreads, pc, stdout_of,
                   wait_on, child, pending, tour_file, trace, failed, cancel_requested>>

\* The Tk event loop runs the oldest callback: here the progress update of a
\* "Run" line, lambda p=progress: setattr(self.progress, 'value', p).
UiProgress ==
    /\ UNCHANGED notGui
    /\ after_queue # <<>>
    /\ Head(after_queue)[1] = "progress"
    /\ after_queue' = Tail(after_queue)
    /\ progress_applied' =
          [progress_applied EXCEPT ![Head(after_queue)[2]] =
              Append(@, Head(after_queue)[3])]
    /\ UNCHANGED <<emitted, held, console>>
    /\ UNCHANGED <<file_path, is_running, process, start_btn, stop_btn, nthreads,
                   pc, stdout_of, wait_on, child, pending, tour_file, trace,
                   failed, cancel_requested>>

(***************************************************************************)
(* Worker thread: _run_optimization.  A block of statements that touch     *)
(* only the thread's own objects and files is one step together with the   *)
(* one access to shared state (is_running, process, the tour file) that    *)
(* ends or begins it.                                                      *)
(***************************************************************************)
\* The stages of the try block, in program order (lines 724, 737, 738, 748,
\* 756, 768, 775, 778, 787).
StageOrder ==
    <<"load", "matrix", "tsp", "par", "solve", "parse", "export", "distance", "map">>

\* The stages a block `ss` has started when its k-th stage raises: a raise
\* leaves the try block, the later statements are not run.
StartedSwallowed(ss, k) == ss

Started(ss, k) == SubSeq(ss, 1, k)

\* Worker w runs the stages `ss` one after the other; with `raises` the k-th
\* raises, otherwise all return (k = Len(ss)).  The except block (798-800)
\* only logs the error.
RunStages(w, ss, k, raises) ==
    /\ k \in 1..Len(ss)
    /\ ~raises => k = Len(ss)
    /\ trace' = [trace EXCEPT ![w] = @ \o (IF raises THEN Started(ss, k) ELSE ss)]
    /\ failed' = [failed EXCEPT ![w] = IF raises THEN ss[k] ELSE @]

\* Lines 715-743: ExcelToTSPConverter(...), compute_distance_matrix(),
\* generate_tsp_file(...), then `if not self.is_running: return`.
WConvert(w) ==
    /\ UNCHANGED notGui
    /\ UNCHANGED conVars
    /\ pc[w] = "begin"
    /\ \E raises \in BOOLEAN, k \in 1..3 :
        /\ RunStages(w, <<"load", "matrix", "tsp">>, k, raises)
        /\ pc' = [pc EXCEPT ![w] =
                    IF raises \/ ~is_running THEN "finally" ELSE "par"]
    /\ UNCHANGED <<file_path, is_running, process, start_btn, stop_btn,
                   after_queue, nthreads, stdout_of, wait_on, child, pending,
                   tour_file, cancel_requested>>

\* Lines 746-756 and 821-827: _create_par_file(), then _run_lkh:
\* self.process = subprocess.Popen(...); Popen raises when the executable is
\* missing.
WSpawn(w) ==
    /\ UNCHANGED notGui
    /\ UNCHANGED conVars
    /\ pc[w] = "par"
    /\ \E raises \in BOOLEAN, k \in 1..2 :
        /\ RunStages(w, <<"par", "solve">>, k, raises)
        /\ IF raises
           THEN /\ pc' = [pc EXCEPT ![w] = "finally"]
                /\ UNCHANGED <<process, child>>
           ELSE /\ pc' = [pc EXCEPT ![w] = "iter"]
                /\ process' = w
                /\ child' = [child EXCEPT ![w] = "running"]
    /\ UNCHANGED <<file_path, is_running, start_btn, stop_btn, after_queue,
                   nthreads, stdout_of, wait_on, pending, tour_file,
                   cancel_requested>>

\* _run_lkh, line 832: `for line in self.process.stdout` reads the field once.
WIter(w) ==
    /\ UNCHANGED notGui
    /\ UNCHANGED conVars
    /\ pc[w] = "iter"
    /\ stdout_of' = [stdout_of EXCEPT ![w] = process]
    /\ pc' = [pc EXCEPT ![w] = "read"]
    /\ UNCHANGED <<file_path, is_running, process, start_btn, stop_btn,
                   after_queue, nthreads, wait_on, child, pending, tour_file,
                   trace, failed, cancel_requested>>

\* _run_lkh, lines 832-834: the next line of the pipe arrives (line k of
\* child p when p has written emitted[p] lines and pending[p] are unread);
\* is_running is looked at after the line has been read.
WReadLine(w) ==
    /\ UNCHANGED notGui
    /\ pc[w] = "read"
    /\ pending[stdout_of[w]] > 0
    /\ LET p == stdout_of[w]
           k == emitted[p] - pending[p] + 1
       IN  /\ pending' = [pending EXCEPT ![p] = @ - 1]
           /\ IF ~is_running
              THEN pc' = [pc EXCEPT ![w] = "wait"] /\ UNCHANGED held
              ELSE /\ pc' = [pc EXCEPT ![w] = "log"]
                   /\ held' = [held EXCEPT ![w] = <<p, k>>]
    /\ UNCHANGED <<emitted, console, progress_applied>>
    /\ UNCHANGED <<file_path, is_running, process, start_btn, stop_btn,
                   after_queue, nthreads, stdout_of, wait_on, child, tour_file,
                   trace, failed, cancel_requested>>

\* _run_lkh, lines 836-858: the line, a "Run k: ..." line, is inserted in the
\* console and its progress update is posted with root.after.
WLog(w) ==
    /\ UNCHANGED notGui
    /\ pc[w] = "log"
    /\ console' = [console EXCEPT ![held[w][1]] = Append(@, held[w][2])]
    /\ after_queue' = Append(after_queue, Callback("progress", held[w][1], held[w][2]))
    /\ held' = [held EXCEPT ![w] = <<>>]
    /\ pc' = [pc EXCEPT ![w] = "read"]
    /\ UNCHANGED <<emitted, progress_applied>>
    /\ UNCHANGED <<file_path, is_running, process, start_btn, stop_btn,
                   nthreads, stdout_of, wait_on, child, pending, tour_file,
                   trace, failed, cancel_requested>>

\* _run_lkh, line 832: the pipe is at end of file, the loop ends.
WReadEof(w) ==
    /\ UNCHANGED notGui
    /\ UNCHANGED conVars
    /\ pc[w] = "read"
    /\ pending[stdout_of[w]] = 0
    /\ child[stdout_of[w]] # "running"
    /\ pc' = [pc EXCEPT ![w] = "wait"]
    /\ UNCHANGED <<file_path, is_running, process, start_btn, stop_btn,
                   after_queue, nthreads, stdout_of, wait_on, child, pending,
                   tour_file, trace, failed, cancel_requested>>

\* _run_lkh, line 860: self.process.wait() reads the field, then blocks.
WWaitCall(w) ==
    /\ UNCHANGED notGui
    /\ UNCHANGED conVars
    /\ pc[w] = "wait"
    /\ wait_on' = [wait_on EXCEPT ![w] = process]
    /\ pc' = [pc EXCEPT ![w] = "waiting"]
    /\ UNCHANGED <<file_path, is_running, process, start_btn, stop_btn,
                   after_queue, nthreads, stdout_of, child, pending, tour_file,
                   trace, failed, cancel_requested>>

\* _run_lkh, line 860: wait() returns once that process has ended; the
\* return code is dropped.
WWaitReturn(w) ==
    /\ UNCHANGED notGui
    /\ UNCHANGED conVars
    /\ pc[w] = "waiting"
    /\ child[wait_on[w]] # "running"
    /\ pc' = [pc EXCEPT ![w] = "check2"]
    /\ UNCHANGED <<file_path, is_running, process, start_btn, stop_btn,
                   after_queue, nthreads, stdout_of, wait_on, child, pending,
                   tour_file, trace, failed, cancel_requested>>

\* Lines 758-759: if not self.is_running: return
WCheck(w) ==
    /\ UNCHANGED notGui
    /\ UNCHANGED conVars
    /\ pc[w] = "check2"
    /\ pc' = [pc EXCEPT ![w] = IF ~is_running THEN "finally" ELSE "parse"]
    /\ UNCHANGED <<file_path, is_running, process, start_btn, stop_btn,
                   after_queue, nthreads, stdout_of, wait_on, child, pending,
                   tour_file, trace, failed, cancel_requested>>

\* Lines 762-796: TourToExcelConverter(...) loads the data and parses the
\* tour file (open() raises when there is none), generate_output(...),
\* _calculate_distance(...), _generate_map(...), which catches what the map
\* raises.
WExport(w) ==
    /\ UNCHANGED notGui
    /\ UNCHANGED conVars
    /\ pc[w] = "parse"
    /\ \E raises \in BOOLEAN, k \in 1..4 :
        /\ tour_file = 0 => raises /\ k = 1
        /\ raises => k <= 3
        /\ RunStages(w, <<"parse", "export", "distance", "map">>, k, raises)
    /\ pc' = [pc EXCEPT ![w] = "finally"]
    /\ UNCHANGED <<file_path, is_running, process, start_btn, stop_btn,
                   after_queue, nthreads, stdout_of, wait_on, child, pending,
                   tour_file, cancel_requested>>

\* Lines 802-803: finally: self.root.after(0, self._reset_ui); the thread
\* ends and its locals (and the record of what it did) go with it.
WFinally(w) ==
    /\ UNCHANGED notGui
    /\ UNCHANGED conVars
    /\ pc[w] = "finally"
    /\ after_queue' = Append(after_queue, Callback("_reset_ui", 0, 0))
    /\ pc' = [pc EXCEPT ![w] = "done"]
    /\ stdout_of' = [stdout_of EXCEPT ![w] = 0]
    /\ wait_on' = [wait_on EXCEPT ![w] = 0]
    /\ trace' = [trace EXCEPT ![w] = <<>>]
    /\ failed' = [failed EXCEPT ![w] = ""]
    /\ cancel_requested' = [cancel_requested EXCEPT ![w] = FALSE]
    /\ UNCHANGED <<file_path, is_running, process, start_btn, stop_btn,
                   nthreads, child, pending, tour_file>>

(***************************************************************************)
(* The solver child process (LKH.exe <par file>)                           *)
(***************************************************************************)
RECURSIVE SumOver(_, _)
SumOver(f, S) ==
    IF S = {} THEN 0
    ELSE LET x == CHOOSE y \in S : TRUE IN f[x] + SumOver(f, S \ {x})

\* The child writes its next line, "Run k: ...", to its stdout pipe, which
\* holds MaxPipe lines; the children write MaxEmit lines in all.
ChildPrint(p) ==
    /\ UNCHANGED notGui
    /\ child[p] = "running"
    /\ pending[p] < MaxPipe
    /\ SumOver(emitted, Runs) < MaxEmit
    /\ pending' = [pending EXCEPT ![p] = @ + 1]
    /\ emitted' = [emitted EXCEPT ![p] = @ + 1]
    /\ UNCHANGED <<held, console, progress_applied>>
    /\ UNCHANGED <<file_path, is_running, process, start_btn, stop_btn,
                   after_queue, nthreads, pc, stdout_of, wait_on, child,
                   tour_file, trace, failed, cancel_requested>>

\* The child exits with status 0 after writing TOUR_FILE.
ChildExitOk(p) ==
    /\ UNCHANGED notGui
    /\ UNCHANGED conVars
    /\ child[p] = "running"
    /\ child' = [child EXCEPT ![p] = "exit0"]
    /\ tour_file' = p
    /\ UNCHANGED <<file_path, is_running, process, start_btn, stop_btn,
                   after_queue, nthreads, pc, stdout_of, wait_on, pending,
                   trace, failed, cancel_requested>>

\* The child exits with a non-zero status, with or without a (partial) tour
\* file written.
ChildExitFail(p) ==
    /\ UNCHANGED notGui
    /\ UNCHANGED conVars
    /\ child[p] = "running"
    /\ child' = [child EXCEPT ![p] = "exit1"]
    /\ \E wrote \in BOOLEAN : tour_file' = IF wrote THEN p ELSE tour_file
    /\ UNCHANGED <<file_path, is_running, process, start_btn, stop_btn,
                   after_queue, nthreads, pc, stdout_of, wait_on, pending,
                   trace, failed, cancel_requested>>

Worker(w) ==
    \/ WConvert(w) \/ WSpawn(w) \/ WIter(w) \/ WReadLine(w) \/ WLog(w)
    \/ WReadEof(w)
    \/ WWaitCall(w) \/ WWaitReturn(w) \/ WCheck(w) \/ WExport(w)
    \/ WFinally(w)

Child(p) == ChildPrint(p) \/ ChildExitOk(p) \/ ChildExitFail(p)

GuiStep ==
    \/ SelectFile \/ StartNoFile \/ StartClick \/ StopClick \/ UiAfter
    \/ UiProgress
    \/ \E w \in Runs : Worker(w)
    \/ \E p \in Runs : Child(p)

Next == GuiStep

Spec == Init /\ [][Next]_vars

\* The scheduling the liveness of a run rests on: a worker thread that can
\* take a step takes one, the Tk event loop runs the callbacks posted, and a
\* solver that can exit does.  Clicks and the solver's output are under no
\* obligation.
Fairness ==
    /\ \A w \in Runs : WF_vars(Worker(w))
    /\ WF_vars(UiAfter \/ UiProgress)
    /\ \A p \in Runs : WF_vars(ChildExitOk(p) \/ ChildExitFail(p))

\* A session in which Start launches at most MaxLiveRuns runs.
LiveNext == Next /\ nthreads' <= MaxLiveRuns

SpecLive == Init /\ [][LiveNext]_vars /\ Fairness

(***************************************************************************)
(* The tour parsers: TourToExcelConverter._parse_tour (tsp_converter.py)   *)
(* and parse_tour_file (visualize_tour.py), one loop iteration per step.   *)
(***************************************************************************)
\* Decimal numerals, as str() writes and int() reads them.
Numeral == <<"1", "2", "3", "4", "5", "6">>

\* The line of a tour file that holds node id i; the line of id 2 carries a
\* leading blank.
IdLine(i) == IF i = 2 THEN " 2" ELSE IF i = 0 THEN "0" ELSE Numeral[i]

\* The id a line written by IdLine holds.
IdOfLine(l) == CHOOSE i \in 1..MaxId : IdLine(i) = l

LengthComment == "COMMENT : Length = 7"

\* The lines an arbitrary tour file is made of.
RawLines ==
    {"TOUR_SECTION", "-1", "EOF", "", "x", LengthComment}
        \cup {IdLine(i) : i \in 1..MaxId}

\* Files of at most MaxLines arbitrary lines.
AnyFiles == UNION {[1..k -> RawLines] : k \in 0..MaxLines}

\* The file with body TOUR_SECTION, the ids, -1, EOF.
TourFileOf(ids) ==
    <<"TOUR_SECTION">> \o [k \in 1..Len(ids) |-> IdLine(ids[k])] \o <<"-1", "EOF">>

SolverFiles ==
    {TourFileOf(ids) : ids \in UNION {[1..k -> 1..MaxId] : k \in 1..MaxTour}}

\* Files that put the state machine through its cases: a line before the
\* section, TOUR_SECTION, a terminator before any id, an id, a line that is
\* no integer, an id, a terminator, and one more id line after it.
SectionFiles ==
    {<<before, "TOUR_SECTION", early, IdLine(i), stray, IdLine(j), term, IdLine(k)>> :
        before \in {"1", "x"}, early \in {"-1", "EOF", ""},
        stray \in {"x", LengthComment}, term \in {"-1", "EOF", ""},
        i \in 1..MaxId, j \in 1..MaxId, k \in 1..MaxId}

\* str.strip()
strip(raw) == IF raw = " 2" THEN "2" ELSE raw

\* int(line) raises ValueError unless the line is a decimal integer.
IsInteger(line) ==
    line \in {"-1", "0"} \/ \E i \in 1..Len(Numeral) : Numeral[i] = line

ParseInt(line) ==
    IF line = "-1" THEN -1
    ELSE IF line = "0" THEN 0
    ELSE CHOOSE i \in 1..Len(Numeral) : Numeral[i] = line

\* line.startswith('COMMENT : Length =')
StartsWithLength(line) == line = LengthComment

\* int(line.split('=')[1].strip()) of such a line
LengthOf(line) == 7

\* line in ['-1', 'EOF', ''] with -1 left out: the line -1 is then read as
\* a node id.
IsTerminatorNoMinusOne(line) == line \in {"EOF", ""}

\* line in ['-1', 'EOF', '']
IsTerminator(line) == line \in {"-1", "EOF", ""}

\* if in_tour_section: break, without `and self.tour_order`.
EndsSectionAlways(in_section, order) == in_section

\* if in_tour_section and self.tour_order: break
EndsSection(in_section, order) == in_section /\ order # <<>>

TourInit ==
    /\ t_parser \in {"_parse_tour", "parse_tour_file"}
    /\ t_exists \in BOOLEAN
    /\ t_lines \in (IF t_exists
                    THEN AnyFiles \cup SolverFiles \cup SectionFiles
                    ELSE {<<>>})
    /\ t_pos = 0
    /\ t_pc = "open"
    /\ in_tour_section = FALSE
    /\ tour_order = <<>>
    /\ tour_length = <<>>
    /\ t_exc = ""

\* with open(tour_path, 'r', encoding='utf-8') as f:
TOpen ==
    /\ UNCHANGED notTour
    /\ t_pc = "open"
    /\ IF t_exists
       THEN t_pc' = "loop" /\ UNCHANGED t_exc
       ELSE t_pc' = "raised" /\ t_exc' = "FileNotFoundError"
    /\ UNCHANGED <<t_parser, t_exists, t_lines, t_pos, in_tour_section,
                   tour_order, tour_length>>

\* One iteration of `for line in f:`.
TLine ==
    /\ UNCHANGED notTour
    /\ t_pc = "loop"
    /\ t_pos < Len(t_lines)
    /\ t_pos' = t_pos + 1
    /\ LET line == strip(t_lines[t_pos + 1]) IN
        \* parse_tour_file only: the length comment
        /\ tour_length' =
              IF t_parser = "parse_tour_file" /\ StartsWithLength(line)
              THEN <<LengthOf(line)>>
              ELSE tour_length
        /\ IF line = "TOUR_SECTION"
           THEN /\ in_tour_section' = TRUE
                /\ UNCHANGED <<tour_order, t_pc>>
           ELSE IF IsTerminator(line)
           THEN /\ t_pc' = IF EndsSection(in_tour_section, tour_order)
                            THEN "done" ELSE "loop"
                /\ UNCHANGED <<in_tour_section, tour_order>>
           ELSE IF in_tour_section /\ IsInteger(line)
           THEN /\ tour_order' = Append(tour_order, ParseInt(line))
                /\ UNCHANGED <<in_tour_section, t_pc>>
           ELSE UNCHANGED <<in_tour_section, tour_order, t_pc>>
    /\ UNCHANGED <<t_parser, t_exists, t_lines, t_exc>>

\* The file is exhausted: the loop ends and the parser returns.
TEof ==
    /\ UNCHANGED notTour
    /\ t_pc = "loop"
    /\ t_pos = Len(t_lines)
    /\ t_pc' = "done"
    /\ UNCHANGED <<t_parser, t_exists, t_lines, t_pos, in_tour_section,
                   tour_order, tour_length, t_exc>>

TourNext == TOpen \/ TLine \/ TEof

\* TourToExcelConverter._parse_tour as a function of the file: the order it
\* leaves in self.tour_order, reading from line pos on.
RECURSIVE ParseTourFrom(_, _, _, _)
ParseTourFrom(lines, pos, in_section, order) ==
    IF pos > Len(lines) THEN order
    ELSE LET line == strip(lines[pos]) IN
         IF line = "TOUR_SECTION"
         THEN ParseTourFrom(lines, pos + 1, TRUE, order)
         ELSE IF IsTerminator(line)
         THEN IF EndsSection(in_section, order)
              THEN order
              ELSE ParseTourFrom(lines, pos + 1, in_section, order)
         ELSE IF in_section /\ IsInteger(line)
         THEN ParseTourFrom(lines, pos + 1, in_section, Append(order, ParseInt(line)))
         ELSE ParseTourFrom(lines, pos + 1, in_section, order)

\* visualize_tour.py: line in ['-1', 'EOF'], the empty line left out.
viz_IsTerminatorNoEmpty(line) == line \in {"-1", "EOF"}

\* visualize_tour.py: line in ['-1', 'EOF', '']
viz_IsTerminator(line) == line \in {"-1", "EOF", ""}

\* visualize_tour.parse_tour_file as a function of the file: the order it
\* returns, reading from line pos on.  A length comment is no integer and
\* falls through to the last branch.
RECURSIVE VizParseTourFrom(_, _, _, _)
VizParseTourFrom(lines, pos, in_section, order) ==
    IF pos > Len(lines) THEN order
    ELSE LET line == strip(lines[pos]) IN
         IF line = "TOUR_SECTION"
         THEN VizParseTourFrom(lines, pos + 1, TRUE, order)
         ELSE IF viz_IsTerminator(line)
         THEN IF in_section /\ order # <<>>
              THEN order
              ELSE VizParseTourFrom(lines, pos + 1, in_section, order)
         ELSE IF in_section /\ IsInteger(line)
         THEN VizParseTourFrom(lines, pos + 1, in_section, Append(order, ParseInt(line)))
         ELSE VizParseTourFrom(lines, pos + 1, in_section, order)

InitTour == GuiInit /\ TourInit /\ MatIdle /\ RestIdle

SpecTour == InitTour /\ [][TourNext]_vars

(***************************************************************************)
(* ExcelToTSPConverter.convert: compute_distance_matrix, one pair (i, j)   *)
(* per step, then generate_tsp_file.                                       *)
(*                                                                         *)
(* Coordinates.  A finite coordinate [kind |-> "finite", v |-> k] is the   *)
(* angle of k units, one unit being the angle whose arc on the sphere of   *)
(* radius 6371.008 km is a quarter of a kilometre.  The point sets lie on  *)
(* the meridian lon = 0 or on the equator, where the haversine formula     *)
(* gives the radius times the absolute difference of the angles.           *)
(*                                                                         *)
(* Distances.  A radius is written in metres and a distance is the radius  *)
(* times the angle in units: a kilometre is UnitsPerKm of these, and the   *)
(* distance of two points under the radius of tsp_converter.py is a whole  *)
(* number of quarter kilometres.                                           *)
(***************************************************************************)
\* tsp_converter.py: EARTH_RADIUS_KM = 6371.008
EARTH_RADIUS_KM == 6371008

\* visualize_tour.py: EARTH_RADIUS_KM = 6371.0
viz_EARTH_RADIUS_KM == 6371000

UnitsPerKm == 4 * EARTH_RADIUS_KM

Finite(k) == [kind |-> "finite", v |-> k]

NaN == [kind |-> "nan", v |-> 0]

Inf == [kind |-> "inf", v |-> 0]

Coordinates == {Finite(k) : k \in 0..MaxCoord} \cup {NaN, Inf}

OnMeridian == {[lat |-> c, lon |-> Finite(0)] : c \in Coordinates}

OnEquator == {[lat |-> Finite(0), lon |-> c] : c \in Coordinates}

PointSets ==
    UNION {[1..n -> OnMeridian] \cup [1..n -> OnEquator] : n \in 0..MaxN}

IsFinitePoint(p) == p.lat.kind = "finite" /\ p.lon.kind = "finite"

Abs(x) == IF x < 0 THEN -x ELSE x

\* haversine_distance with a NaN argument returns NaN, and round(NaN)
\* raises ValueError; with an infinite argument sin/cos raise ValueError.
HaversineRaises(p, q) == ~IsFinitePoint(p) \/ ~IsFinitePoint(q)

\* c = 2 * atan2(sqrt(a), sqrt(1 - a)): the central angle of two finite
\* points, in angle units.
CentralAngle(p, q) == Abs(q.lat.v - p.lat.v) + Abs(q.lon.v - p.lon.v)

\* tsp_converter.haversine_distance: return EARTH_RADIUS_KM * c
haversine_distance(p, q) == EARTH_RADIUS_KM * CentralAngle(p, q)

\* visualize_tour.haversine_distance: return EARTH_RADIUS_KM * c
viz_haversine_distance(p, q) == viz_EARTH_RADIUS_KM * CentralAngle(p, q)

\* Python 3 round(num / den) of a float: to the nearest integer, a tie to
\* the even neighbour.
RoundHalfEven(num, den) ==
    LET fl == num \div den
        r == num % den
    IN  IF 2 * r < den THEN fl
        ELSE IF 2 * r > den THEN fl + 1
        ELSE IF fl % 2 = 0 THEN fl ELSE fl + 1

\* int(round(dist * self.scale))
ScaledDist(p, q, sc) == RoundHalfEven(haversine_distance(p, q) * sc, UnitsPerKm)

\* np.zeros((n, n), dtype=np.int64)
Zeros(n) == [i \in 1..n |-> [j \in 1..n |-> 0]]

\* Only self.distance_matrix[i, j] = scaled_dist, the mirror entry forgotten.
StoreUpper(m, i, j, v) == [m EXCEPT ![i][j] = v]

\* self.distance_matrix[i, j] = scaled_dist; self.distance_matrix[j, i] = scaled_dist
Store(m, i, j, v) == [m EXCEPT ![i][j] = v, ![j][i] = v]

MatInit ==
    /\ points \in PointSets
    /\ scale \in 1..MaxScale
    /\ m_pc = "begin"
    /\ has_matrix = FALSE
    /\ distance_matrix = <<>>
    /\ mi = 0
    /\ mj = 0
    /\ count = 0
    /\ last_percent = 0
    /\ progress = <<>>
    /\ tsp_file = <<>>
    /\ m_exc = ""

\* compute_distance_matrix, lines 125-137: the matrix of zeros, the counters.
MBegin ==
    /\ UNCHANGED notMat
    /\ m_pc = "begin"
    /\ has_matrix' = TRUE
    /\ distance_matrix' = Zeros(Len(points))
    /\ count' = 0
    /\ last_percent' = 0
    /\ mi' = 1
    /\ mj' = 2
    /\ m_pc' = IF Len(points) >= 2 THEN "loop" ELSE "return"
    /\ UNCHANGED <<points, scale, progress, tsp_file, m_exc>>

\* if percent > last_percent: a report whenever the percentage has moved.
ReportDueEachPercent(percent, last) == percent > last

\* if percent >= last_percent + 10
ReportDue(percent, last) == percent >= last + 10

\* compute_distance_matrix, lines 139-150: the body of the inner loop for
\* the pair (i, j), then the next pair.
MPair ==
    /\ UNCHANGED notMat
    /\ m_pc = "loop"
    /\ IF HaversineRaises(points[mi], points[mj])
       THEN /\ m_pc' = "raised"
            /\ m_exc' = "ValueError"
            /\ UNCHANGED <<distance_matrix, count, last_percent, progress, mi, mj>>
       ELSE LET n == Len(points)
                total == (n * (n - 1)) \div 2
                percent == ((count + 1) * 100) \div total
            IN  /\ distance_matrix' =
                      Store(distance_matrix, mi, mj,
                            ScaledDist(points[mi], points[mj], scale))
                /\ count' = count + 1
                /\ IF ReportDue(percent, last_percent)
                   THEN /\ progress' = Append(progress, percent)
                        /\ last_percent' = percent
                   ELSE UNCHANGED <<progress, last_percent>>
                /\ IF mj < n
                   THEN mi' = mi /\ mj' = mj + 1 /\ m_pc' = "loop"
                   ELSE /\ mi' = mi + 1
                        /\ mj' = mi + 2
                        /\ m_pc' = IF mi + 2 <= n THEN "loop" ELSE "return"
                /\ UNCHANGED m_exc
    /\ UNCHANGED <<points, scale, has_matrix, tsp_file>>

\* compute_distance_matrix, lines 152-153: return self.distance_matrix
MReturn ==
    /\ UNCHANGED notMat
    /\ m_pc = "return"
    /\ m_pc' = "computed"
    /\ UNCHANGED <<points, scale, has_matrix, distance_matrix, mi, mj, count,
                   last_percent, progress, tsp_file, m_exc>>

\* A line of the problem file: its keyword, the text after " : " and the
\* integers written on it.
Line(key, text, nums) == [key |-> key, text |-> text, nums |-> nums]

\* generate_tsp_file, lines 174-180: the header section.
HeaderLines(n, sc) ==
    << Line("NAME", "problem_name", <<>>),
       Line("COMMENT", "Generated by TSP Converter (scale=)", <<sc>>),
       Line("TYPE", "TSP", <<>>),
       Line("DIMENSION", "", <<n>>),
       Line("EDGE_WEIGHT_TYPE", "EXPLICIT", <<>>),
       Line("EDGE_WEIGHT_FORMAT", "FULL_MATRIX", <<>>),
       Line("EDGE_WEIGHT_SECTION", "", <<>>) >>

\* Row i written from column i on only (the upper triangle).
RowLinesUpper(m, n) ==
    [i \in 1..n |-> Line("", "", [j \in 1..(n - i + 1) |-> m[i][i + j - 1]])]

\* generate_tsp_file, lines 183-185: row i is the join of matrix[i, 0..n-1].
RowLines(m, n) ==
    [i \in 1..n |-> Line("", "", [j \in 1..n |-> m[i][j]])]

\* generate_tsp_file, lines 163-190: the header, the n rows, EOF.
\* (self.distance_matrix is not None here: compute_distance_matrix ran.)
MTsp ==
    /\ UNCHANGED notMat
    /\ m_pc = "computed"
    /\ tsp_file' = HeaderLines(Len(points), scale)
                      \o RowLines(distance_matrix, Len(points))
                      \o <<Line("EOF", "", <<>>)>>
    /\ m_pc' = "tsp"
    /\ UNCHANGED <<points, scale, has_matrix, distance_matrix, mi, mj, count,
                   last_percent, progress, m_exc>>

MatNext == MBegin \/ MPair \/ MReturn \/ MTsp

InitMatrix == GuiInit /\ TourIdle /\ MatInit /\ RestIdle

SpecMatrix == InitMatrix /\ [][MatNext]_vars

\* Data sets of up to MaxCountN points on the equator, for the pair counter
\* and the progress reports of compute_distance_matrix.
EquatorRows ==
    {[k \in 1..n |-> [lat |-> Finite(0), lon |-> Finite(k % (MaxCoord + 1))]] :
        n \in 0..MaxCountN}

CountInit ==
    /\ points \in EquatorRows
    /\ scale \in 1..MaxScale
    /\ m_pc = "begin"
    /\ has_matrix = FALSE
    /\ distance_matrix = <<>>
    /\ mi = 0
    /\ mj = 0
    /\ count = 0
    /\ last_percent = 0
    /\ progress = <<>>
    /\ tsp_file = <<>>
    /\ m_exc = ""

InitCount == GuiInit /\ TourIdle /\ CountInit /\ RestIdle

SpecCount == InitCount /\ [][MatNext]_vars

(***************************************************************************)
(* The parameter-file writers: ExcelToTSPConverter.generate_par_file and   *)
(* LKHVisionSolver._create_par_file.                                       *)
(***************************************************************************)
\* The largest POPULATION_SIZE tried is MaxPopulation (see the bounds).
ParamSets ==
    [ MOVE_TYPE : {3, 5},
      PATCHING_C : {3, 4},
      PATCHING_A : {2},
      RUNS : {1, 10},
      MAX_TRIALS : {1000},
      POPULATION_SIZE : 0..MaxPopulation,
      RECOMBINATION : {"CLARIST", "IPT"} ]

\* if population_size >= 1: the two lines written for a population of one too.
HasPopulationFromOne(population_size) == population_size >= 1

\* if population_size > 1:
HasPopulation(population_size) == population_size > 1

\* The lines both writers produce from the values v.
ParLines(v) ==
    << Line("PROBLEM_FILE", "tsp_path", <<>>),
       Line("MOVE_TYPE", "", <<v.MOVE_TYPE>>),
       Line("PATCHING_C", "", <<v.PATCHING_C>>),
       Line("PATCHING_A", "", <<v.PATCHING_A>>),
       Line("RUNS", "", <<v.RUNS>>),
       Line("MAX_TRIALS", "", <<v.MAX_TRIALS>>) >>
    \o (IF HasPopulation(v.POPULATION_SIZE)
        THEN << Line("POPULATION_SIZE", "", <<v.POPULATION_SIZE>>),
                Line("RECOMBINATION", v.RECOMBINATION, <<>>) >>
        ELSE <<>>)
    \o << Line("TOUR_FILE", "tour_file", <<>>) >>

\* generate_par_file(output_path, tsp_path, runs, move_type, population_size,
\* max_trials, tour_file): PATCHING_C = 3, PATCHING_A = 2 and
\* RECOMBINATION = CLARIST are literals of the writer.
generate_par_file(p) ==
    ParLines([p EXCEPT !.PATCHING_C = 3, !.PATCHING_A = 2,
                       !.RECOMBINATION = "CLARIST"])

\* _create_par_file: every value comes from self.params.
create_par_file(p) == ParLines(p)

ParInit ==
    /\ par_writer \in {"generate_par_file", "_create_par_file"}
    /\ par_params \in ParamSets
    /\ par_pc = "write"
    /\ par_file = <<>>

PGenerate ==
    /\ UNCHANGED notPar
    /\ par_pc = "write"
    /\ par_writer = "generate_par_file"
    /\ par_file' = generate_par_file(par_params)
    /\ par_pc' = "done"
    /\ UNCHANGED <<par_writer, par_params>>

PCreate ==
    /\ UNCHANGED notPar
    /\ par_pc = "write"
    /\ par_writer = "_create_par_file"
    /\ par_file' = create_par_file(par_params)
    /\ par_pc' = "done"
    /\ UNCHANGED <<par_writer, par_params>>

ParNext == PGenerate \/ PCreate

InitPar ==
    /\ GuiInit /\ TourIdle /\ MatIdle /\ ParInit /\ OutIdle /\ DistIdle /\ DetIdle
    /\ BarIdle

SpecPar == InitPar /\ [][ParNext]_vars

(***************************************************************************)
(* TourToExcelConverter.generate_output: the visiting_order column, the    *)
(* sorted result table and the response table.  self.tour_order is what    *)
(* _parse_tour left; one iteration of the loop over it per step.           *)
(***************************************************************************)
\* The identifiers of the records of a data file.
\* str.lower()
LowerChar(c) ==
    CASE c = "Y" -> "y" [] c = "X" -> "x" [] c = "L" -> "l"
      [] c = "I" -> "i" [] c = "D" -> "d" [] c = "C" -> "c"
      [] c = "S" -> "s" [] c = "V" -> "v" [] OTHER -> c

lower(col) == [k \in 1..Len(col) |-> LowerChar(col[k])]

Communes == <<"A", "B", "C", "D", "E", "F">>

\* A data file of n records: the identifier column and one more column.
DataFile(n) == [i \in 1..n |-> [commune |-> Communes[i], population |-> 10 * i]]

\* The tours _parse_tour can leave over a file of n records: node ids in and
\* out of 1..n, repeated or not.
ToursOver(n) == UNION {[1..k -> 0..(n + 1)] : k \in 0..MaxTour}

\* idx = node_id without the shift to 0-based rows.
IndexOfUnshifted(node_id) == node_id

\* idx = node_id - 1
IndexOf(node_id) == node_id - 1

\* The arrangements of the rows with indices in S in which visiting_order
\* never decreases, each built from a smallest remaining row.
RECURSIVE SortedFrom(_, _)
SortedFrom(rows, S) ==
    IF S = {} THEN {<<>>}
    ELSE UNION {{<<rows[i]>> \o rest : rest \in SortedFrom(rows, S \ {i})} :
                  i \in {m \in S : \A j \in S :
                            rows[m].visiting_order <= rows[j].visiting_order}}

\* sort_values(by=order_col) with the default, unstable sort: rows of equal
\* visiting_order come out in any order.
SortedBy(rows) == SortedFrom(rows, 1..Len(rows))

\* result_df[[self.id_col, order_col]]
IdAndOrder(rows) ==
    [k \in 1..Len(rows) |->
        [commune |-> rows[k].commune, visiting_order |-> rows[k].visiting_order]]

\* Output paths: the names r.xlsx, r.csv, r.xlsm and r.
dot_xlsx == <<".", "x", "l", "s", "x">>
dot_csv == <<".", "c", "s", "v">>
p_xlsx == <<"r">> \o dot_xlsx
p_csv == <<"r">> \o dot_csv
p_xlsm == <<"r", ".", "x", "l", "s", "m">>
p_bare == <<"r">>

f_xlsx == <<"x", "l", "s", "x">>
f_csv == <<"c", "s", "v">>
f_CSV == <<"C", "S", "V">>

\* The paths the command line's --output option hands over.
OutputPaths == {p_xlsx, p_csv, p_xlsm, p_bare}

\* The values of the --format option, and 'CSV' as a caller may pass it.
OutputFormats == {f_xlsx, f_csv, f_CSV}

underscore_response == <<"_", "r", "e", "s", "p", "o", "n", "s", "e">>

\* str.replace(old, new)
RECURSIVE Replace(_, _, _)
Replace(str, old, new) ==
    IF str = <<>> THEN <<>>
    ELSE IF Len(str) >= Len(old) /\ SubSeq(str, 1, Len(old)) = old
    THEN new \o Replace(SubSeq(str, Len(old) + 1, Len(str)), old, new)
    ELSE <<Head(str)>> \o Replace(Tail(str), old, new)

\* output_path.replace('.xlsx', '_response.xlsx').replace('.csv', '_response.csv')
ResponsePath(path) ==
    Replace(Replace(path, dot_xlsx, underscore_response \o dot_xlsx),
            dot_csv, underscore_response \o dot_csv)

\* The writer used: to_csv if output_format.lower() == 'csv', else to_excel.
WriterOf(format) ==
    IF lower(format) = f_csv
    THEN "to_csv" ELSE "to_excel"

\* os.path.splitext(path)[1][1:] of a file name: what follows its last dot.
RECURSIVE Extension(_)
Extension(path) ==
    IF path = <<>> THEN <<>>
    ELSE IF \E k \in 2..Len(path) : path[k] = "." THEN Extension(Tail(path))
    ELSE IF Head(path) = "." THEN Tail(path)
    ELSE <<>>

\* to_excel(path) raises ValueError (no engine for the file type) unless the
\* extension of path has an Excel writer.
ExcelWritable(path) == Extension(path) \in {f_xlsx, <<"x", "l", "s", "m">>}

\* The write of a table to path raises.
WriteRaises(path, format) ==
    WriterOf(format) = "to_excel" /\ ~ExcelWritable(path)

\* print(f"[INFO] ...")
Info(text) == [level |-> "INFO", text |-> text]

\* The file at path now holds table.
Written(disk, path, table) ==
    [q \in (DOMAIN disk) \cup {path} |-> IF q = path THEN table ELSE disk[q]]

\* generate_output as the GUI calls it: generate_output(self.excel_path),
\* a path that ends in _result.xlsx, the format left at 'xlsx'.
GuiCall ==
    /\ output_path = p_xlsx
    /\ output_format = f_xlsx

OutBegin ==
    /\ result_df = <<>>
    /\ o_pc = "begin"
    /\ o_pos = 0
    /\ result_file = <<>>
    /\ response_file = <<>>
    /\ response_path = <<>>
    /\ on_disk = <<>>
    /\ printed = <<>>
    /\ o_return = <<>>
    /\ o_exc = ""

OutInit ==
    /\ original_df \in {DataFile(n) : n \in 0..MaxRecords}
    /\ GuiCall
    /\ OutBegin

\* The parser has returned self.tour_order, one of `tours`, from the file
\* that holds it.
TourParsedFrom(tours) ==
    /\ t_parser = "_parse_tour"
    /\ t_exists = TRUE
    /\ tour_order \in tours
    /\ t_lines = TourFileOf(tour_order)
    /\ t_pos = IF tour_order = <<>> THEN Len(t_lines) ELSE Len(t_lines) - 1
    /\ t_pc = "done"
    /\ in_tour_section = TRUE
    /\ tour_length = <<>>
    /\ t_exc = ""

TourParsed == TourParsedFrom(ToursOver(Len(original_df)))

\* generate_output, lines 388-393: the copy with visiting_order = 0.
OBegin ==
    /\ UNCHANGED notOut
    /\ o_pc = "begin"
    /\ result_df' = [i \in 1..Len(original_df) |->
                        [commune |-> original_df[i].commune,
                         population |-> original_df[i].population,
                         visiting_order |-> 0]]
    /\ o_pos' = 0
    /\ o_pc' = "loop"
    /\ UNCHANGED <<original_df, result_file, response_file, pathVars>>

\* generate_output, lines 396-400: one iteration of the loop; the row with
\* 0-based index idx is row idx + 1 of result_df.
OAssign ==
    /\ UNCHANGED notOut
    /\ o_pc = "loop"
    /\ o_pos < Len(tour_order)
    /\ LET visit_position == o_pos + 1
           idx == IndexOf(tour_order[visit_position])
           n == Len(original_df)
       IN  result_df' = IF 0 <= idx /\ idx < n
                        THEN [result_df EXCEPT ![idx + 1].visiting_order = visit_position]
                        ELSE result_df
    /\ o_pos' = o_pos + 1
    /\ UNCHANGED <<original_df, o_pc, result_file, response_file, pathVars>>

\* generate_output, lines 403-410: the loop is over; result_sorted is written.
OSort ==
    /\ UNCHANGED notOut
    /\ o_pc = "loop"
    /\ o_pos = Len(tour_order)
    /\ IF WriteRaises(output_path, output_format)
       THEN /\ printed' = Append(printed, Info("Generating output"))
            /\ o_exc' = "ValueError"
            /\ o_pc' = "raised"
            /\ UNCHANGED <<result_file, on_disk>>
       ELSE /\ result_file' \in SortedBy(result_df)
            /\ on_disk' = Written(on_disk, output_path, "result")
            /\ printed' = printed \o
                  <<Info("Generating output"), Info("Output generated")>>
            /\ o_pc' = "response"
            /\ UNCHANGED o_exc
    /\ UNCHANGED <<original_df, result_df, o_pos, response_file, output_path,
                   output_format, response_path, o_return>>

\* generate_output, lines 415-425: response_df is taken from result_df and
\* written.
OResponse ==
    /\ UNCHANGED notOut
    /\ o_pc = "response"
    /\ response_path' = ResponsePath(output_path)
    /\ IF WriteRaises(ResponsePath(output_path), output_format)
       THEN /\ o_exc' = "ValueError"
            /\ o_pc' = "raised"
            /\ UNCHANGED <<response_file, on_disk, printed, o_return>>
       ELSE /\ response_file' = IdAndOrder(result_df)
            /\ on_disk' = Written(on_disk, ResponsePath(output_path), "response")
            /\ printed' = Append(printed, Info("Response file generated"))
            /\ o_return' = <<output_path, ResponsePath(output_path)>>
            /\ o_pc' = "done"
            /\ UNCHANGED o_exc
    /\ UNCHANGED <<original_df, result_df, o_pos, result_file, output_path,
                   output_format>>

OutNext == OBegin \/ OAssign \/ OSort \/ OResponse

InitOutput ==
    /\ GuiInit /\ OutInit /\ TourParsed /\ MatIdle /\ ParIdle /\ DistIdle /\ DetIdle
    /\ BarIdle

SpecOutput == InitOutput /\ [][OutNext]_vars

\* generate_output as the command line calls it (export_to_excel), over
\* every output path and format and data files of at most MaxPathRecords
\* records.
CliCall ==
    /\ output_path \in OutputPaths
    /\ output_format \in OutputFormats

InitPaths ==
    /\ GuiInit /\ MatIdle /\ ParIdle /\ DistIdle /\ DetIdle /\ BarIdle
    /\ original_df \in {DataFile(n) : n \in 0..MaxPathRecords}
    /\ CliCall
    /\ OutBegin
    /\ TourParsed

SpecPaths == InitPaths /\ [][OutNext]_vars

(***************************************************************************)
(* The total distance of the tour: LKHVisionSolver._calculate_distance and *)
(* visualize_tour.create_tour_map, over the records of the data file       *)
(* (their coordinates are `points`) and self.tour_order.                   *)
(***************************************************************************)
\* Data files of finite points.
FinitePointSets == {ps \in PointSets : \A k \in 1..Len(ps) : IsFinitePoint(ps[k])}

\* Tours of at most n node ids, each a record of the file.
ToursIn(n) == UNION {[1..k -> 1..n] : k \in 0..n}

\* _calculate_distance, lines 869-881: the sum over i of the distance from
\* tour_order[i] to tour_order[(i + 1) % len(tour_order)].
RECURSIVE SumClosed(_, _, _)
SumClosed(ps, tour, i) ==
    IF i > Len(tour) THEN 0
    ELSE haversine_distance(ps[tour[i]], ps[tour[(i % Len(tour)) + 1]])
            + SumClosed(ps, tour, i + 1)

\* create_tour_map, lines 121-125: the sum over consecutive entries of
\* tour_coords.
RECURSIVE SumPath(_, _)
SumPath(coords, i) ==
    IF i >= Len(coords) THEN 0
    ELSE viz_haversine_distance(coords[i], coords[i + 1]) + SumPath(coords, i + 1)

\* create_tour_map, lines 103-118: the coordinates in tour order, ids
\* outside the file left out, the first appended again to close the loop.
TourCoords(ps, tour) ==
    LET inside(id) == 1 <= id /\ id <= Len(ps)
        kept == SelectSeq(tour, inside)
        coords == [k \in 1..Len(kept) |-> ps[kept[k]]]
    IN  IF coords = <<>> THEN <<>> ELSE Append(coords, coords[1])

DistInit ==
    /\ d_pc = "calc"
    /\ total_distance = <<>>
    /\ map_total = <<>>
    /\ map_exc = ""

\* _calculate_distance(converter)
DCalc ==
    /\ UNCHANGED notDist
    /\ d_pc = "calc"
    /\ total_distance' = <<SumClosed(points, tour_order, 1)>>
    /\ d_pc' = "map"
    /\ UNCHANGED <<map_total, map_exc>>

\* _generate_map -> create_tour_map: the total is summed, then printed with
\* its mean per node, total_distance / len(tour_order); _generate_map
\* catches what is raised.
DMap ==
    /\ UNCHANGED notDist
    /\ d_pc = "map"
    /\ map_total' = <<SumPath(TourCoords(points, tour_order), 1)>>
    /\ map_exc' = IF tour_order = <<>> THEN "ZeroDivisionError" ELSE ""
    /\ d_pc' = "done"
    /\ UNCHANGED total_distance

DistNext == DCalc \/ DMap

InitDistance ==
    /\ GuiInit /\ ParIdle /\ DetIdle /\ BarIdle /\ DistInit
    /\ points \in FinitePointSets
    /\ scale = 1 /\ m_pc = "idle" /\ has_matrix = FALSE /\ distance_matrix = <<>>
    /\ mi = 0 /\ mj = 0 /\ count = 0 /\ last_percent = 0 /\ progress = <<>>
    /\ tsp_file = <<>> /\ m_exc = ""
    /\ original_df = DataFile(Len(points))
    /\ result_df = <<>> /\ o_pc = "idle" /\ o_pos = 0
    /\ result_file = <<>> /\ response_file = <<>>
    /\ PathIdle
    /\ TourParsedFrom(ToursIn(Len(points)))

SpecDistance == InitDistance /\ [][DistNext]_vars

(***************************************************************************)
(* Column detection: detect_columns (tsp_converter.py) and the loop of     *)
(* LKHVisionSolver._load_columns.  A header or a pattern is the sequence   *)
(* of its characters.                                                      *)
(***************************************************************************)
h_city == <<"c", "i", "t", "y">>
h_Ycoordinate == <<"Y", "-", "c", "o", "o", "r", "d", "i", "n", "a", "t", "e">>
h_Xcoordinate == <<"X", "-", "c", "o", "o", "r", "d", "i", "n", "a", "t", "e">>
h_Latitude == <<"L", "a", "t", "i", "t", "u", "d", "e">>
h_lon == <<"l", "o", "n">>
h_ID == <<"I", "D">>
h_y == <<"y">>
h_zone == <<"z", "o", "n", "e">>
h_commune == <<"c", "o", "m", "m", "u", "n", "e">>

\* The headers a data file is made of.
Headers ==
    {h_city, h_Ycoordinate, h_Xcoordinate, h_Latitude, h_lon, h_ID, h_y, h_zone}

\* df.columns: up to MaxCols different headers.
ColumnLists ==
    {cs \in UNION {[1..k -> Headers] : k \in 0..MaxCols} :
        \A i, j \in 1..Len(cs) : i # j => cs[i] # cs[j]}

\* pattern in col_lower, for strings: col_lower has the substring pattern.
Contains(col_lower, pattern) ==
    \E i \in 0..(Len(col_lower) - Len(pattern)) :
        SubSeq(col_lower, i + 1, i + Len(pattern)) = pattern

lat_patterns ==
    << <<"l", "a", "t", "i", "t", "u", "d", "e">>, <<"l", "a", "t">>, <<"y">>,
       <<"c", "o", "o", "r", "d", "_", "y">>, <<"l", "a", "t", "_", "d", "e", "g">> >>

lon_patterns ==
    << <<"l", "o", "n", "g", "i", "t", "u", "d", "e">>, <<"l", "o", "n">>,
       <<"l", "o", "n", "g">>, <<"x">>, <<"c", "o", "o", "r", "d", "_", "x">>,
       <<"l", "o", "n", "_", "d", "e", "g">>, <<"l", "n", "g">> >>

id_patterns ==
    << <<"i", "d">>, h_commune, <<"n", "a", "m", "e">>, h_city,
       <<"n", "o", "d", "e">>, <<"p", "o", "i", "n", "t">>,
       <<"i", "n", "d", "e", "x">> >>

\* pattern in columns_lower, for the dict {col.lower(): col}: some header's
\* lower case is the pattern.
InColumnsLower(cols, pattern) ==
    \E k \in 1..Len(cols) : lower(cols[k]) = pattern

\* columns_lower[pattern]: the last header with that lower case.
ColumnsLowerAt(cols, pattern) ==
    LET ks == {k \in 1..Len(cols) : lower(cols[k]) = pattern}
    IN  cols[CHOOSE k \in ks : \A m \in ks : m <= k]

\* for pattern in patterns: if pattern in columns_lower: ...; break
FirstMatch(cols, patterns) ==
    LET hits == {i \in 1..Len(patterns) : InColumnsLower(cols, patterns[i])}
    IN  IF hits = {} THEN <<>>
        ELSE <<ColumnsLowerAt(cols, patterns[CHOOSE i \in hits : \A m \in hits : i <= m])>>

\* The loop of _load_columns, lines 640-647, over the headers from the k-th.
RECURSIVE LoadLoop(_, _, _)
LoadLoop(cols, k, sel) ==
    IF k > Len(cols) THEN sel
    ELSE LET col == cols[k]
             col_lower == lower(col)
         IN  LoadLoop(cols, k + 1,
                IF Contains(col_lower, <<"i", "d">>) \/ Contains(col_lower, h_commune)
                      \/ Contains(col_lower, <<"n", "a", "m", "e">>)
                THEN [sel EXCEPT !.id = <<col>>]
                ELSE IF Contains(col_lower, <<"l", "a", "t">>) \/ Contains(col_lower, <<"y">>)
                THEN [sel EXCEPT !.lat = <<col>>]
                ELSE IF Contains(col_lower, <<"l", "o", "n">>) \/ Contains(col_lower, <<"x">>)
                THEN [sel EXCEPT !.lon = <<col>>]
                ELSE sel)

\* detect_columns starts from None, None, None (lines 445-447); the GUI from
\* the values its StringVars are created with (lines 202-204).
DetInit ==
    /\ det_fn \in {"detect_columns", "_load_columns"}
    /\ columns \in ColumnLists
    /\ det_pc = "detect"
    /\ id_col = IF det_fn = "detect_columns" THEN <<>> ELSE <<h_commune>>
    /\ lat_col = IF det_fn = "detect_columns" THEN <<>> ELSE <<h_Ycoordinate>>
    /\ lon_col = IF det_fn = "detect_columns" THEN <<>> ELSE <<h_Xcoordinate>>

\* detect_columns(df)
DetectColumns ==
    /\ UNCHANGED notDet
    /\ det_pc = "detect"
    /\ det_fn = "detect_columns"
    /\ lat_col' = FirstMatch(columns, lat_patterns)
    /\ lon_col' = FirstMatch(columns, lon_patterns)
    /\ id_col' = LET found == FirstMatch(columns, id_patterns)
                 IN  IF found = <<>> /\ Len(columns) > 0
                     THEN <<columns[1]>> ELSE found
    /\ det_pc' = "done"
    /\ UNCHANGED <<det_fn, columns>>

\* _load_columns, lines 632-647
LoadColumns ==
    /\ UNCHANGED notDet
    /\ det_pc = "detect"
    /\ det_fn = "_load_columns"
    /\ LET sel == LoadLoop(columns, 1, [id |-> id_col, lat |-> lat_col, lon |-> lon_col])
       IN  /\ id_col' = sel.id
           /\ lat_col' = sel.lat
           /\ lon_col' = sel.lon
    /\ det_pc' = "done"
    /\ UNCHANGED <<det_fn, columns>>

DetNext == DetectColumns \/ LoadColumns

InitDetect ==
    /\ GuiInit /\ TourIdle /\ MatIdle /\ ParIdle /\ OutIdle /\ DistIdle /\ DetInit
    /\ BarIdle

SpecDetect == InitDetect /\ [][DetNext]_vars

(***************************************************************************)
(* The progress bar during the solver stage: the body of the read loop of  *)
(* LKHVisionSolver._run_lkh, one worker, and the UI thread running the     *)
(* callbacks it posts.  A line is the sequence of its characters.          *)
(***************************************************************************)
l_run1 == <<"R", "u", "n", " ", "1", ":", " ", "C", "=", "9">>
l_run2 == <<" ", "R", "u", "n", " ", "2", ":", " ", "C", "=", "9">>
l_run3 == <<"R", "u", "n", " ", "3", ":">>
l_run2_bare == <<"R", "u", "n", " ", "2">>
l_runx == <<"R", "u", "n", " ", "x", ":", " ", "C", "=", "9">>
l_runs == <<"R", "u", "n", "s", " ", "=", " ", "2">>
l_cost == <<"C", "=", "9">>
l_blank == <<" ">>

\* The lines the child writes.
SolverLines ==
    {l_run1, l_run2, l_run3, l_run2_bare, l_runx, l_runs, l_cost, l_blank}

Digits == <<"0", "1", "2", "3", "4", "5", "6", "7", "8", "9">>

\* str.strip()
RECURSIVE StripLeft(_)
StripLeft(s) ==
    IF s # <<>> /\ Head(s) = " " THEN StripLeft(Tail(s)) ELSE s

RECURSIVE StripRight(_)
StripRight(s) ==
    IF s # <<>> /\ s[Len(s)] = " " THEN StripRight(SubSeq(s, 1, Len(s) - 1)) ELSE s

StripBoth(s) == StripRight(StripLeft(s))

\* str.startswith(prefix)
StartsWith(s, prefix) ==
    Len(s) >= Len(prefix) /\ SubSeq(s, 1, Len(prefix)) = prefix

\* str.split(':')[0]
RECURSIVE FirstPart(_)
FirstPart(s) ==
    IF s = <<>> \/ Head(s) = ":" THEN <<>> ELSE <<Head(s)>> \o FirstPart(Tail(s))

\* str.replace(old, '')
RECURSIVE RemoveAll(_, _)
RemoveAll(s, old) ==
    IF s = <<>> THEN <<>>
    ELSE IF StartsWith(s, old)
    THEN RemoveAll(SubSeq(s, Len(old) + 1, Len(s)), old)
    ELSE <<Head(s)>> \o RemoveAll(Tail(s), old)

\* int(s) raises ValueError unless s is a run of decimal digits (the lines
\* here carry no sign).
IsDecimal(s) ==
    s # <<>> /\ \A k \in 1..Len(s) : \E d \in 1..10 : Digits[d] = s[k]

DigitOf(c) == (CHOOSE d \in 1..10 : Digits[d] = c) - 1

RECURSIVE IntOf(_)
IntOf(s) ==
    IF s = <<>> THEN 0
    ELSE 10 * IntOf(SubSeq(s, 1, Len(s) - 1)) + DigitOf(s[Len(s)])

RunPrefix == <<"R", "u", "n", " ">>

\* run_part = parts[0].replace('Run ', '').strip()
RunPart(line) == StripBoth(RemoveAll(FirstPart(line), RunPrefix))

\* The try block is entered and int(run_part) does not raise.
ParsesAsRun(line) == StartsWith(line, RunPrefix) /\ IsDecimal(RunPart(line))

\* progress = 30 + (current_run / runs) * 50, as numerator and denominator.
ProgressOf(n, total) == <<30 * total + 50 * n, total>>

\* Two fractions are the same number.
SameValue(a, b) == a[1] * b[2] = b[1] * a[2]

BarInit ==
    /\ runs \in 1..MaxRunsParam
    /\ out_lines \in UNION {[1..k -> SolverLines] : k \in 0..MaxOut}
    /\ out_pos = 0
    /\ bar_pc = "loop"
    /\ current_run = 0
    /\ bar_after = <<>>
    /\ progress_value = <<0, 1>>
    /\ progress_attr = <<>>

\* _run_lkh, lines 836-847: one line of the loop; a "Run N" line sets
\* current_run and posts the progress update with root.after.
BarLine ==
    /\ UNCHANGED notBar
    /\ bar_pc = "loop"
    /\ out_pos < Len(out_lines)
    /\ out_pos' = out_pos + 1
    /\ LET line == StripBoth(out_lines[out_pos + 1]) IN
        IF line # <<>> /\ ParsesAsRun(line)
        THEN /\ current_run' = IntOf(RunPart(line))
             /\ bar_after' = Append(bar_after, ProgressOf(IntOf(RunPart(line)), runs))
        ELSE UNCHANGED <<current_run, bar_after>>
    /\ UNCHANGED <<runs, out_lines, bar_pc, progress_value, progress_attr>>

\* _run_lkh, line 832: the pipe is at end of file.
BarEof ==
    /\ UNCHANGED notBar
    /\ bar_pc = "loop"
    /\ out_pos = Len(out_lines)
    /\ bar_pc' = "done"
    /\ UNCHANGED <<runs, out_lines, out_pos, current_run, bar_after,
                   progress_value, progress_attr>>

\* The callback of line 847, setattr(self.progress, 'value', p): tkinter
\* widgets define no __setattr__, so this binds the instance attribute
\* `value` and leaves the widget option alone.
SetAttr(p) ==
    /\ progress_attr' = <<p>>
    /\ UNCHANGED progress_value

\* The Tk event loop runs the oldest callback posted.
BarApply ==
    /\ UNCHANGED notBar
    /\ bar_after # <<>>
    /\ SetAttr(Head(bar_after))
    /\ bar_after' = Tail(bar_after)
    /\ UNCHANGED <<runs, out_lines, out_pos, bar_pc, current_run>>

BarNext == BarLine \/ BarEof \/ BarApply

InitProgress ==
    /\ GuiInit /\ TourIdle /\ MatIdle /\ ParIdle /\ OutIdle /\ DistIdle /\ DetIdle
    /\ BarInit

SpecProgress == InitProgress /\ [][BarNext]_vars

(***************************************************************************)
(* Claims about the GUI pipeline, checked under Spec.                      *)
(***************************************************************************)
\* The stages of a run a claim names, in the order the specification gives.
SixOrder == <<"matrix", "tsp", "par", "solve", "parse", "export">>

IsSix(stage) == stage \in {"matrix", "tsp", "par", "solve", "parse", "export"}

IsPrefix(s, t) == Len(s) <= Len(t) /\ s = SubSeq(t, 1, Len(s))

Has(s, x) == \E k \in 1..Len(s) : s[k] = x

\* C1: single-flight: at most one _run_optimization worker is active at any
\* time, whatever the sequence of Start and Stop clicks.
C1_SingleFlight == Cardinality({w \in Runs : Active(w)}) <= 1

\* C2: once Stop has been requested for a run, that run's worker starts none
\* of tour parsing, result export and map generation.
C2_NoDownstreamAfterCancel ==
    [][\A w \in Runs :
          cancel_requested[w] =>
              \A k \in (Len(trace[w]) + 1)..Len(trace'[w]) :
                  trace'[w][k] \notin {"parse", "export", "map"}]_vars

\* C3: no state has a run whose cancellation was requested, whose child
\* process is alive and un-terminated, and whose worker is blocked in
\* process.wait() on that child.
C3_CancelTerminatesChild ==
    \A w \in Runs :
        ~(cancel_requested[w] /\ pc[w] = "waiting" /\ wait_on[w] = w
            /\ child[w] = "running")

\* C4: when the solver of a run exited with a non-zero status, that run
\* constructs no TourToExcelConverter and calls no generate_output.
C4_NonZeroExitNoExport ==
    \A w \in Runs :
        child[w] = "exit1" => ~Has(trace[w], "parse") /\ ~Has(trace[w], "export")

\* C5: within one run the stages matrix, problem file, parameter file,
\* solver, tour parse, export start in that order, each after its
\* predecessor returned, and after a stage raised no further stage starts.
C5_StageOrder ==
    \A w \in Runs :
        /\ IsPrefix(SelectSeq(trace[w], IsSix), SixOrder)
        /\ IsPrefix(trace[w], StageOrder)
        /\ failed[w] # "" =>
            /\ trace[w] # <<>>
            /\ trace[w][Len(trace[w])] = failed[w]
            /\ pc[w] = "finally"

\* One run has started all six stages and none raised, while another run
\* stopped at the solver stage, which raised.
C5_Witness ==
    \E w1, w2 \in Runs :
        /\ SelectSeq(trace[w1], IsSix) = SixOrder
        /\ failed[w1] = ""
        /\ failed[w2] = "solve"
        /\ trace[w2] = SubSeq(StageOrder, 1, 5)


(***************************************************************************)
(* Claims about the tour parsers, checked under SpecTour.                  *)
(***************************************************************************)
\* The loop was left by `break`: the last line read ended a non-empty section.
Terminated ==
    /\ t_pos >= 1
    /\ IsTerminator(strip(t_lines[t_pos]))
    /\ in_tour_section
    /\ tour_order # <<>>

\* s holds each of 1..Len(s) once.
IsPermutation(s) == \A i \in 1..Len(s) : \E k \in 1..Len(s) : s[k] = i

\* C6: a parser returns a tour only when the file reached a terminated,
\* non-empty tour section and the order is a permutation of 1..n; otherwise
\* it fails with an error.
C6_ReturnedTourIsPermutation ==
    t_pc = "done" => Terminated /\ IsPermutation(tour_order)

\* The file is TOUR_SECTION, k >= 1 id lines, -1, EOF.
IsSolverFile(f) ==
    /\ Len(f) >= 4
    /\ f[1] = "TOUR_SECTION"
    /\ f[Len(f) - 1] = "-1"
    /\ f[Len(f)] = "EOF"
    /\ \A k \in 2..(Len(f) - 2) : \E i \in 1..MaxId : f[k] = IdLine(i)

\* C7: for a file TOUR_SECTION, k >= 1 id lines, -1, EOF, both parsers
\* return exactly those ids in file order and no length.
C7_SolverFileParsed ==
    (t_pc = "done" /\ IsSolverFile(t_lines)) =>
        /\ tour_order = [k \in 1..(Len(t_lines) - 3) |-> IdOfLine(t_lines[k + 1])]
        /\ tour_length = <<>>

\* The file with ids 1, 3, 2, 4 has been parsed to the order 1, 3, 2, 4.
C7_Witness ==
    /\ t_pc = "done"
    /\ t_parser = "parse_tour_file"
    /\ t_lines = <<"TOUR_SECTION", "1", "3", " 2", "4", "-1", "EOF">>
    /\ tour_order = <<1, 3, 2, 4>>
    /\ tour_length = <<>>


(***************************************************************************)
(* Claims about the distance matrix, checked under SpecMatrix.             *)
(***************************************************************************)
\* compute_distance_matrix has returned its matrix.
Computed == m_pc \in {"computed", "tsp"}

\* C8: for n >= 2 points and a positive scale the returned matrix is n x n,
\* has a zero diagonal, is symmetric and has no negative entry.
C8_MatrixShape ==
    (Computed /\ Len(points) >= 2) =>
        LET n == Len(points) IN
        /\ Len(distance_matrix) = n
        /\ \A i \in 1..n : Len(distance_matrix[i]) = n
        /\ \A i \in 1..n : distance_matrix[i][i] = 0
        /\ \A i, j \in 1..n : distance_matrix[i][j] = distance_matrix[j][i]
        /\ \A i, j \in 1..n : distance_matrix[i][j] >= 0

\* A matrix of three points with non-zero distances has been returned.
C8_Witness ==
    /\ Computed
    /\ Len(points) = 3
    /\ distance_matrix[1][2] > 0
    /\ distance_matrix[2][3] > 0
    /\ distance_matrix[3][1] > distance_matrix[1][2]

\* Rounding to the nearest integer, a tie away from zero (num >= 0).
RoundHalfAway(num, den) ==
    LET fl == num \div den
        r == num % den
    IN  IF 2 * r < den THEN fl ELSE fl + 1

\* C9: every off-diagonal entry is distance_km * scale rounded to the nearest
\* integer, a tie rounded away from zero.
C9_RoundHalfAwayFromZero ==
    Computed =>
        \A i, j \in 1..Len(points) :
            i # j =>
                distance_matrix[i][j] =
                    RoundHalfAway(haversine_distance(points[i], points[j]) * scale,
                                  UnitsPerKm)

\* C10: with fewer than 2 points, or with a non-finite coordinate,
\* compute_distance_matrix does not return and no problem file is written.
C10_InvalidInputRejected ==
    (Len(points) < 2 \/ \E k \in 1..Len(points) : ~IsFinitePoint(points[k])) =>
        /\ ~Computed
        /\ tsp_file = <<>>


\* The keywords of the header section, in the order of the TSPLIB rendering.
HeaderKeys ==
    <<"NAME", "COMMENT", "TYPE", "DIMENSION", "EDGE_WEIGHT_TYPE",
      "EDGE_WEIGHT_FORMAT", "EDGE_WEIGHT_SECTION">>

\* C11: the problem file is the seven header lines NAME, COMMENT, TYPE : TSP,
\* DIMENSION : n, EDGE_WEIGHT_TYPE : EXPLICIT, EDGE_WEIGHT_FORMAT :
\* FULL_MATRIX, EDGE_WEIGHT_SECTION in that order, then n lines, line i
\* holding the n entries of matrix row i in column order, then EOF; DIMENSION
\* is the number of rows written.
C11_TspFileLayout ==
    m_pc = "tsp" =>
        LET n == Len(points) IN
        /\ Len(tsp_file) = n + 8
        /\ \A k \in 1..7 : tsp_file[k].key = HeaderKeys[k]
        /\ tsp_file[3].text = "TSP"
        /\ tsp_file[4].nums = <<n>>
        /\ tsp_file[5].text = "EXPLICIT"
        /\ tsp_file[6].text = "FULL_MATRIX"
        /\ \A i \in 1..n :
              /\ tsp_file[7 + i].key = ""
              /\ tsp_file[7 + i].nums = distance_matrix[i]
              /\ Len(tsp_file[7 + i].nums) = n
        /\ tsp_file[n + 8].key = "EOF"
        /\ Cardinality({k \in 1..Len(tsp_file) : tsp_file[k].key = ""})
              = tsp_file[4].nums[1]

\* The file of a three-point instance with a non-zero distance in its first
\* and last row has been written.
C11_Witness ==
    /\ m_pc = "tsp"
    /\ Len(points) = 3
    /\ Len(tsp_file) = 11
    /\ tsp_file[8].nums[2] > 0
    /\ tsp_file[10].nums[1] > 0

(***************************************************************************)
(* Claims about the parameter file, checked under SpecPar.                 *)
(***************************************************************************)
\* The keywords of the lines of a file, in file order.
KeysOf(f) == [k \in 1..Len(f) |-> f[k].key]

\* C12: both writers emit PROBLEM_FILE, MOVE_TYPE, PATCHING_C, PATCHING_A,
\* RUNS, MAX_TRIALS, then POPULATION_SIZE and RECOMBINATION exactly when the
\* population size is greater than 1, then TOUR_FILE, each key once.
C12_ParKeyOrder ==
    par_pc = "done" =>
        KeysOf(par_file) =
            IF par_params.POPULATION_SIZE > 1
            THEN <<"PROBLEM_FILE", "MOVE_TYPE", "PATCHING_C", "PATCHING_A",
                   "RUNS", "MAX_TRIALS", "POPULATION_SIZE", "RECOMBINATION",
                   "TOUR_FILE">>
            ELSE <<"PROBLEM_FILE", "MOVE_TYPE", "PATCHING_C", "PATCHING_A",
                   "RUNS", "MAX_TRIALS", "TOUR_FILE">>

\* The GUI writer has written a file for population size 1, without the two
\* conditional lines.
C12_Witness ==
    /\ par_pc = "done"
    /\ par_writer = "_create_par_file"
    /\ par_params.POPULATION_SIZE = 1
    /\ Len(par_file) = 7

(***************************************************************************)
(* Claims about generate_output, checked under SpecOutput.                 *)
(***************************************************************************)
\* C13: for a tour that is a permutation of 1..n over n records, the record
\* at 0-based index id - 1 gets the 1-based position of id in the tour, the
\* visiting_order column is a permutation of 1..n, and the result table
\* lists the records in tour order.
C13_VisitingOrder ==
    (o_pc = "done" /\ Len(tour_order) = Len(original_df)
        /\ IsPermutation(tour_order)) =>
        LET n == Len(original_df) IN
        /\ \A p \in 1..n : result_df[tour_order[p]].visiting_order = p
        /\ IsPermutation([i \in 1..n |-> result_df[i].visiting_order])
        /\ Len(result_file) = n
        /\ \A p \in 1..n :
              /\ result_file[p].commune = original_df[tour_order[p]].commune
              /\ result_file[p].population = original_df[tour_order[p]].population
              /\ result_file[p].visiting_order = p

\* The tour 1, 3, 2, 4 over four records has been written out.
C13_Witness ==
    /\ o_pc = "done"
    /\ Len(original_df) = 4
    /\ tour_order = <<1, 3, 2, 4>>
    /\ [p \in 1..4 |-> result_file[p].commune] = <<"A", "C", "B", "D">>

\* C14: with a node id below 1 or above n in the tour, generate_output
\* writes neither the result table nor the response table.
C14_OutOfRangeIdRejected ==
    (\E k \in 1..Len(tour_order) :
        tour_order[k] < 1 \/ tour_order[k] > Len(original_df)) =>
        /\ result_file = <<>>
        /\ response_file = <<>>
        /\ o_pc \notin {"response", "done"}

\* C15: the response table holds only the identifier and visiting_order
\* columns and lists its rows in the order of the result table, ascending
\* by visiting_order.
C15_ResponseSorted ==
    o_pc = "done" =>
        /\ \A k \in 1..Len(response_file) :
              DOMAIN response_file[k] = {"commune", "visiting_order"}
        /\ response_file = IdAndOrder(result_file)

(***************************************************************************)
(* Claims about the total distance, checked under SpecDistance.            *)
(***************************************************************************)
\* The sum, over the consecutive pairs of the closed tour, of the pairwise
\* distance the matrix is computed from.
RECURSIVE MatrixDistanceSum(_, _, _)
MatrixDistanceSum(ps, tour, i) ==
    IF i > Len(tour) THEN 0
    ELSE LET j == IF i = Len(tour) THEN 1 ELSE i + 1
         IN  haversine_distance(ps[tour[i]], ps[tour[j]])
                + MatrixDistanceSum(ps, tour, i + 1)

\* C16: for a tour of k >= 2 records, the total distance of the GUI and the
\* total distance of the map both equal the sum, over the k consecutive
\* pairs with the closing edge, of the distance function of the matrix; for
\* the tour of two points this is twice their distance.
C16_TotalDistance ==
    (d_pc = "done" /\ Len(tour_order) >= 2) =>
        /\ total_distance = <<MatrixDistanceSum(points, tour_order, 1)>>
        /\ map_total = total_distance
        /\ (Len(points) = 2 /\ tour_order = <<1, 2>>) =>
              total_distance = <<2 * haversine_distance(points[1], points[2])>>

(***************************************************************************)
(* Claims about column detection, checked under SpecDetect.                *)
(***************************************************************************)
\* Some header is, in lower case, one of the keywords.
HasKeyword(cols, patterns) ==
    \E k \in 1..Len(cols), i \in 1..Len(patterns) : lower(cols[k]) = patterns[i]

\* C17: on the headers city, Y-coordinate, X-coordinate detection returns
\* city, Y-coordinate, X-coordinate; headers with a latitude (longitude)
\* keyword among them get a latitude (longitude) column, and without an
\* identifier keyword the identifier is the first column.
C17_ColumnDetection ==
    det_pc = "done" =>
        /\ columns = <<h_city, h_Ycoordinate, h_Xcoordinate>> =>
              /\ id_col = <<h_city>>
              /\ lat_col = <<h_Ycoordinate>>
              /\ lon_col = <<h_Xcoordinate>>
        /\ HasKeyword(columns, lat_patterns) =>
              \E k \in 1..Len(columns) : lat_col = <<columns[k]>>
        /\ HasKeyword(columns, lon_patterns) =>
              \E k \in 1..Len(columns) : lon_col = <<columns[k]>>
        /\ (columns # <<>> /\ ~HasKeyword(columns, id_patterns)) =>
              id_col = <<columns[1]>>

(***************************************************************************)
(* More claims about the GUI pipeline, checked under Spec.                 *)
(***************************************************************************)
\* C19: the cancellation flag is honoured at the top of every stage: once
\* Stop has been requested for a run, its worker begins none of matrix
\* construction, problem-file write, parameter-file write, solver spawn,
\* export and map generation.
C19_CancelCheckedBeforeEachStage ==
    [][\A w \in Runs :
          cancel_requested[w] =>
              \A k \in (Len(trace[w]) + 1)..Len(trace'[w]) :
                  trace'[w][k] \notin
                      {"matrix", "tsp", "par", "solve", "export", "map"}]_vars

(***************************************************************************)
(* More claims about the tour parsers, checked under SpecTour.             *)
(***************************************************************************)
\* The smallest member of a non-empty set of numbers.
Least(S) == CHOOSE k \in S : \A m \in S : k <= m

\* The index of the first TOUR_SECTION line of f, Len(f) + 1 without one.
SectionStart(f) ==
    Least({k \in 1..Len(f) : strip(f[k]) = "TOUR_SECTION"} \cup {Len(f) + 1})

\* Line k of f holds a node id: an integer line that is no terminator.
IsIdLine(f, k) == IsInteger(strip(f[k])) /\ strip(f[k]) \notin {"-1", "EOF", ""}

\* The index of the first line -1, EOF or empty that follows the section
\* start and at least one id line of the section; Len(f) + 1 without one.
SectionEnd(f) ==
    Least({k \in (SectionStart(f) + 1)..Len(f) :
              /\ strip(f[k]) \in {"-1", "EOF", ""}
              /\ \E m \in (SectionStart(f) + 1)..(k - 1) : IsIdLine(f, m)}
          \cup {Len(f) + 1})

\* The ids of the id lines strictly between section start and section end.
RECURSIVE IdsBetween(_, _, _)
IdsBetween(f, k, e) ==
    IF k >= e THEN <<>>
    ELSE (IF IsIdLine(f, k) THEN <<ParseInt(strip(f[k]))>> ELSE <<>>)
            \o IdsBetween(f, k + 1, e)

\* C20: lines before TOUR_SECTION contribute no id; in the section a line
\* -1, EOF or empty is ignored while no id has been collected and the first
\* one after an id ends parsing, no later line changing the order; a line
\* that is no integer is skipped without failing or ending the section.
C20_SectionStateMachine ==
    /\ t_pc = "raised" => ~t_exists
    /\ ~in_tour_section => tour_order = <<>>
    /\ t_pc = "done" =>
          /\ tour_order =
                IdsBetween(t_lines, SectionStart(t_lines) + 1, SectionEnd(t_lines))
          /\ t_pos = IF SectionEnd(t_lines) <= Len(t_lines)
                     THEN SectionEnd(t_lines) ELSE Len(t_lines)

\* A file with an id before the section, an empty line before the first id
\* of the section, a stray line between two ids and an id after the
\* terminator has been parsed to the two ids of the section.
C20_Witness ==
    /\ t_pc = "done"
    /\ t_lines = <<"1", "TOUR_SECTION", "", "3", "x", " 2", "-1", "4">>
    /\ t_pos = 7
    /\ tour_order = <<3, 2>>

\* The line numbers in s come in the order the child wrote the lines.
InEmissionOrder(s) ==
    \A i, j \in 1..Len(s) : i < j => s[i] < s[j]

\* C18: the output lines of a child appear in the console in the order the
\* child wrote them, and the progress updates derived from its "Run" lines
\* are applied in the order of those lines.
C18_OutputOrder ==
    \A p \in Runs :
        InEmissionOrder(console[p]) /\ InEmissionOrder(progress_applied[p])

(***************************************************************************)
(* Claims about the length comment, checked under SpecTour.                *)
(***************************************************************************)
\* The file holds a line COMMENT : Length = k.
HasLengthComment == \E i \in 1..Len(t_lines) : StartsWithLength(strip(t_lines[i]))

\* C21: when parse_tour_file returns from a file that holds a line
\* COMMENT : Length = k, wherever the line stands, the length it returns
\* is k.
C21_LengthAnywhere ==
    (t_parser = "parse_tour_file" /\ t_pc = "done" /\ HasLengthComment)
        => tour_length = <<LengthOf(LengthComment)>>

(***************************************************************************)
(* Claims about the progress bar, checked under SpecProgress.              *)
(***************************************************************************)
\* C22: once the loop has ended and the UI has run every callback posted,
\* the value the bar displays is 30 + (N / runs) * 50 for the last line
\* "Run N: ..." read.
C22_ProgressValue ==
    (bar_pc = "done" /\ bar_after = <<>> /\ current_run > 0)
        => SameValue(progress_value, ProgressOf(current_run, runs))

(***************************************************************************)
(* More claims about generate_output.                                      *)
(***************************************************************************)
\* The 1-based rows of the records no id of the tour points at.
Uncovered ==
    {i \in 1..Len(original_df) :
        \A k \in 1..Len(tour_order) : IndexOf(tour_order[k]) + 1 # i}

\* The caller can tell the result from a complete one: a printed line above
\* INFO level, or a return value that is more than the two paths.
Flagged ==
    \/ \E k \in 1..Len(printed) : printed[k].level # "INFO"
    \/ Len(o_return) # 2

\* The uncovered records have visiting_order 0 and come first in the result
\* table.
UncoveredFirst ==
    /\ \A i \in Uncovered : result_df[i].visiting_order = 0
    /\ \A k \in 1..Len(result_file) :
          k <= Cardinality(Uncovered) <=> result_file[k].visiting_order = 0

\* C23: when generate_output returns with records the tour does not cover,
\* each of them has visiting_order 0 and comes before all covered records
\* in the result table, and the caller is told.
C23_UncoveredFlagged ==
    (o_pc = "done" /\ Uncovered # {}) => (UncoveredFirst /\ Flagged)

\* C28: when generate_output returns, the response path differs from the
\* output path and the file at the output path holds the result table.
C28_ResponsePathDiffers ==
    o_pc = "done" => (response_path # output_path /\ on_disk[output_path] = "result")

(***************************************************************************)
(* Claims about the progress of compute_distance_matrix, checked under     *)
(* SpecCount.                                                              *)
(***************************************************************************)
\* n * (n - 1) // 2
TotalPairs == (Len(points) * (Len(points) - 1)) \div 2

\* The pairs (i, j), i < j, that come before the pair the loop is at.
PairsDone ==
    Cardinality({ij \in (1..Len(points)) \X (1..Len(points)) :
                    /\ ij[1] < ij[2]
                    /\ ij[1] < mi \/ (ij[1] = mi /\ ij[2] < mj)})

\* C24: the counter is the number of pairs completed, running from 0 to
\* n(n-1)/2; each percentage reported is at least 10 above the one reported
\* before it (the first at least 10), and at most 10 are reported.
C24_CoarseProgress ==
    /\ m_pc = "loop" => count = PairsDone
    /\ m_pc \in {"return", "computed", "tsp"} => count = TotalPairs
    /\ count <= TotalPairs
    /\ \A k \in 1..Len(progress) :
          progress[k] >= (IF k = 1 THEN 0 ELSE progress[k - 1]) + 10
    /\ Len(progress) <= 10

\* The pass over six points has ended: 15 pairs, seven reports.
C24_Witness ==
    /\ m_pc = "computed"
    /\ Len(points) = 6
    /\ count = 15
    /\ progress = <<13, 26, 40, 53, 66, 80, 93>>

\* C30: when compute_distance_matrix returns for n >= 2 points, the last
\* percentage it reported is 100.
C30_CompletionReported ==
    (m_pc = "computed" /\ Len(points) >= 2) =>
        (progress # <<>> /\ progress[Len(progress)] = 100)

(***************************************************************************)
(* More claims about the GUI pipeline, checked under Spec.                 *)
(***************************************************************************)
\* C25: when no worker thread is active and the UI has run every callback
\* posted, is_running is false.
C25_IdleWhenNoWorker ==
    ((\A w \in Runs : ~Active(w)) /\ after_queue = <<>>) => ~is_running

\* C26: a run whose solver failed or was terminated never parses and exports
\* a tour file that the solver of an earlier run wrote.
C26_TourOfThisRun ==
    [][\A w \in Runs :
          (/\ pc[w] = "parse"
           /\ child[w] \in {"exit1", "terminated"}
           /\ Has(trace'[w], "export")) => tour_file >= w]_vars

C29_ParsersAgree ==
    t_pc = "done" =>
        /\ ParseTourFrom(t_lines, 1, FALSE, <<>>) = VizParseTourFrom(t_lines, 1, FALSE, <<>>)
        /\ tour_order = ParseTourFrom(t_lines, 1, FALSE, <<>>)

\* parse_tour_file has returned two ids and the length from a file with a
\* terminator before the first id and a length comment between the ids.
C29_Witness ==
    /\ t_pc = "done"
    /\ t_parser = "parse_tour_file"
    /\ Len(t_lines) = 8
    /\ Len(tour_order) = 2
    /\ tour_length = <<LengthOf(LengthComment)>>

=============================================================================
